---- MODULE Spec2Model ----
(***************************************************************************)
(* The SimpliCloud webapp as state machines over its tables: email         *)
(* verification with requests in flight (Spec), the middleware            *)
(* authenticate (SpecAuth), the product and image routes (SpecProduct),   *)
(* the liveness probe (SpecHealth), user creation in its steps            *)
(* (SpecCreate) and the user read and update routes (SpecUpdate).         *)
(*                                                                         *)
(* The regular expressions of the routes are evaluated on the characters  *)
(* of the strings (chars).  A nullable column or lookup result is         *)
(* a sequence of length 0 (null) or 1 (a value).  Time is in seconds.     *)
(* Outside the liveness probe the store is taken to answer every query:   *)
(* the catch branches that answer 500 are not part of the model.          *)
(***************************************************************************)
EXTENDS Integers, Sequences, FiniteSets, TLC

VARIABLES users, now, req, last, successes, expiredSeen, products, images,
          health_checks, sns

vars ==
    <<users, now, req, last, successes, expiredSeen, products, images,
      health_checks, sns>>

-----------------------------------------------------------------------------
(* Bounds of the model *)

MaxUsers == 1

\* The number of products ever created
MaxProducts == 2

\* The number of rows the health_checks table may hold
MaxChecks == 2

\* The number of accounts ever registered through the user routes
MaxAccounts == 2

-----------------------------------------------------------------------------
(* Program constants *)

EXPIRY_SECONDS == 60

Null == <<>>

Some(x) == <<x>>

-----------------------------------------------------------------------------
(* Input alphabets *)

EmailA == "a@x.c"

EmailB == "b@x.c"

EmailNoDot == "a@x"

\* The mailbox of EmailA as a client may write it
EmailUpper == "A@x.c"

TokenA == "aaaaaaaa-aaaa-4aaa-8aaa-aaaaaaaaaaaa"

TokenB == "BBBBBBBB-BBBB-4BBB-9BBB-BBBBBBBBBBBB"

TokenC == "cccccccc-cccc-4ccc-accc-cccccccccccc"

TokenPrefix == "aaaaaaaa"

\* The ids Product.create generates, the well-formed id of no product, and
\* an id that is not a UUID
ProductA == "11111111-1111-4111-8111-111111111111"

ProductB == "22222222-2222-4222-8222-222222222222"

ProductC == "33333333-3333-4333-8333-333333333333"

GhostId == "99999999-9999-4999-9999-999999999999"

MalformedId == "123"

\* Values of the Content-Length header
LengthZero == "0"

LengthFifteen == "15"

\* A query parameter that is absent or empty
Missing == ""

QueryEmails == {EmailA, EmailB, EmailNoDot, Missing}

QueryTokens == {TokenA, TokenB, TokenPrefix, Missing}

Passwords == {"secret1", "secret2"}

\* A password that contains the separator of Basic credentials, what a
\* client sends when it appends ":zz" to "secret1", and the part of
\* PasswordColon before its separator
PasswordColon == "se:cret"

PasswordSuffixed == "secret1:zz"

ColonPrefix == "se"

Routes == {"verification", "users"}

\* The instants at which something happens: the start, and one second before,
\* at and after the expiry of a token issued at the start
Instants == {0} \cup ((EXPIRY_SECONDS - 1)..(EXPIRY_SECONDS + 1))

\* The two requests that may be in flight at the same time
Reqs == {1, 2}

-----------------------------------------------------------------------------
(* Regular expressions of the routes, on the characters of a string *)

uuidChars(c, variant) ==
    [i \in 1..36 |-> IF i \in {9, 14, 19, 24} THEN "-"
                     ELSE IF i = 15 THEN "4"
                     ELSE IF i = 20 THEN variant
                     ELSE c]

\* The characters of each string of the alphabets
chars(s) ==
    CASE s = EmailA -> <<"a", "@", "x", ".", "c">>
      [] s = EmailB -> <<"b", "@", "x", ".", "c">>
      [] s = EmailNoDot -> <<"a", "@", "x">>
      [] s = EmailUpper -> <<"A", "@", "x", ".", "c">>
      [] s = TokenA -> uuidChars("a", "8")
      [] s = TokenB -> uuidChars("B", "9")
      [] s = TokenC -> uuidChars("c", "a")
      [] s = TokenPrefix -> SubSeq(uuidChars("a", "8"), 1, 8)
      [] s = Missing -> <<>>
      [] s = ProductA -> uuidChars("1", "8")
      [] s = ProductB -> uuidChars("2", "8")
      [] s = ProductC -> uuidChars("3", "8")
      [] s = GhostId -> uuidChars("9", "9")
      [] s = MalformedId -> <<"1", "2", "3">>
      [] s = "secret1" -> <<"s", "e", "c", "r", "e", "t", "1">>
      [] s = "secret2" -> <<"s", "e", "c", "r", "e", "t", "2">>
      [] s = PasswordColon -> <<"s", "e", ":", "c", "r", "e", "t">>
      [] s = PasswordSuffixed -> <<"s", "e", "c", "r", "e", "t", "1", ":", "z", "z">>
      [] s = ColonPrefix -> <<"s", "e">>
      [] s = LengthZero -> <<"0">>
      [] s = LengthFifteen -> <<"1", "5">>

HexDigit ==
    {"0", "1", "2", "3", "4", "5", "6", "7", "8", "9",
     "a", "b", "c", "d", "e", "f", "A", "B", "C", "D", "E", "F"}

Whitespace == {" ", "\t", "\n", "\r"}

\* /^[0-9a-f]{8}-[0-9a-f]{4}-4[0-9a-f]{3}-[89ab][0-9a-f]{3}-[0-9a-f]{12}$/i
uuidRegex(cs) ==
    /\ Len(cs) = 36
    /\ \A i \in 1..36 :
          IF i \in {9, 14, 19, 24} THEN cs[i] = "-"
          ELSE IF i = 15 THEN cs[i] = "4"
          ELSE IF i = 20 THEN cs[i] \in {"8", "9", "a", "b", "A", "B"}
          ELSE cs[i] \in HexDigit

\* /^[^\s@]+@[^\s@]+\.[^\s@]+$/
emailRegex(cs) ==
    \E i \in 2..Len(cs) :
       /\ cs[i] = "@"
       /\ \A k \in 1..Len(cs) : k # i => cs[k] \notin (Whitespace \cup {"@"})
       /\ \E j \in (i + 2)..(Len(cs) - 1) : cs[j] = "."

\* The strings of the alphabets that each expression matches
uuidShaped == {s \in QueryTokens \cup {TokenC} : uuidRegex(chars(s))}

emailShaped == {s \in QueryEmails : emailRegex(chars(s))}

\* The token User.create generates for the id-th user: a fresh v4 UUID
generatedToken(id) == <<TokenA, TokenB, TokenC>>[id]

-----------------------------------------------------------------------------
(* Responses *)

Resp(status, body) == [status |-> status, body |-> body]


MissingParams(route) ==
    IF route = "verification"
    THEN Resp(400, "Missing required parameters: email and token are required")
    ELSE Resp(400, "Email and token parameters are required")

InvalidEmailFormat == Resp(400, "Invalid email format")

InvalidTokenFormat == Resp(400, "Invalid verification token format")

UserNotFound == Resp(404, "User not found")

AlreadyVerified == Resp(200, "Email already verified")

InvalidToken == Resp(400, "Invalid verification token")

TokenExpired(route) ==
    IF route = "verification"
    THEN Resp(400, "Verification link has expired. Please request a new verification email.")
    ELSE Resp(400, "Verification token has expired. Please request a new verification email.")

VerifiedOk == Resp(200, "Email verified successfully")

-----------------------------------------------------------------------------
(* The User model *)

bcryptHash(plain) == [alg |-> "bcrypt", cost |-> 10, of |-> plain]

bcryptCompare(plain, hash) == hash.of = plain

\* User.findOne({ where: { email } }): the row or null
findOne(email) ==
    LET ids == {i \in 1..Len(users) : users[i].email = email}
    IN  IF ids = {} THEN Null ELSE Some(users[CHOOSE i \in ids : TRUE])

\* User.findByPk(id)
findByPk(id) == IF id \in 1..Len(users) THEN Some(users[id]) ELSE Null

\* user.isTokenExpired() evaluated at time t
isTokenExpired(user, t) ==
    \/ user.token_created_at = Null
    \/ t - user.token_created_at[1] > EXPIRY_SECONDS

\* newUser without the verification token and its creation time
newUser_noToken(id, email, password, token, t) ==
    [id |-> id, email |-> email, password |-> bcryptHash(password),
     email_verified |-> FALSE, verification_token |-> Null,
     token_created_at |-> Null]

\* The row User.create inserts: password hashed, verification pending
newUser(id, email, password, token, t) ==
    [id |-> id, email |-> email, password |-> bcryptHash(password),
     email_verified |-> FALSE, verification_token |-> Some(token),
     token_created_at |-> Some(t)]

\* User.authenticate(email, password): the user or null
UserAuthenticate(email, password) ==
    LET found == findOne(email)
    IN  IF found = Null THEN Null
        ELSE IF ~bcryptCompare(password, found[1].password) THEN Null
        ELSE found

\* middleware authenticate on already decoded credentials:
\* the status it answers with, or 0 when it calls next()
authenticate(email, password) ==
    LET user == UserAuthenticate(email, password)
    IN  IF user = Null THEN 401
        ELSE IF ~user[1].email_verified THEN 403
        ELSE 0

-----------------------------------------------------------------------------
(* GET /v1/user/verify *)

\* Parameter validation before the lookup: the rejection, or Null
validateParams(route, email, token) ==
    IF email = Missing \/ token = Missing THEN Some(MissingParams(route))
    ELSE IF route = "users" THEN Null
    ELSE IF email \notin emailShaped THEN Some(InvalidEmailFormat)
    ELSE IF token \notin uuidShaped THEN Some(InvalidTokenFormat)
    ELSE Null

\* verifyChecks with the token compared before the verified flag is looked at
verifyChecks_tokenFirst(route, user, token, t) ==
    IF user.verification_token # Some(token) THEN Some(InvalidToken)
    ELSE IF user.email_verified THEN Some(AlreadyVerified)
    ELSE IF isTokenExpired(user, t) THEN Some(TokenExpired(route))
    ELSE Null

\* verifyChecks with the expiry looked at before the token is compared
verifyChecks_expiryFirst(route, user, token, t) ==
    IF user.email_verified THEN Some(AlreadyVerified)
    ELSE IF isTokenExpired(user, t) THEN Some(TokenExpired(route))
    ELSE IF user.verification_token # Some(token) THEN Some(InvalidToken)
    ELSE Null

\* verifyChecks without the expiry check
verifyChecks_noExpiry(route, user, token, t) ==
    IF user.email_verified THEN Some(AlreadyVerified)
    ELSE IF user.verification_token # Some(token) THEN Some(InvalidToken)
    ELSE Null

\* The checks on the loaded instance, in the order of the code:
\* the early response, or Null when the verification goes ahead
verifyChecks(route, user, token, t) ==
    IF user.email_verified THEN Some(AlreadyVerified)
    ELSE IF user.verification_token # Some(token) THEN Some(InvalidToken)
    ELSE IF isTokenExpired(user, t) THEN Some(TokenExpired(route))
    ELSE Null

\* markVerified that leaves the token in place
markVerified_keepToken(user) == [user EXCEPT !.email_verified = TRUE]

\* The assignments to the instance before save()
markVerified(user) ==
    [user EXCEPT !.email_verified = TRUE,
                 !.verification_token = Null,
                 !.token_created_at = Null]

\* save that writes the token columns but not email_verified
save_tokenOnly(rows, inst) ==
    [rows EXCEPT ![inst.id] =
        [@ EXCEPT !.verification_token = inst.verification_token,
                  !.token_created_at = inst.token_created_at]]

\* user.save(): UPDATE of the changed columns of the row with the instance's id
save(rows, inst) ==
    [rows EXCEPT ![inst.id] =
        [@ EXCEPT !.email_verified = inst.email_verified,
                  !.verification_token = inst.verification_token,
                  !.token_created_at = inst.token_created_at]]

\* update that also sends the account back to unverified
update_unverify(rows, id, updates) ==
    [rows EXCEPT ![id] =
        [@ EXCEPT !.password =
            IF updates.password # Null THEN bcryptHash(updates.password[1]) ELSE @,
                  !.email_verified = FALSE]]

\* user.update(updates): UPDATE of the given columns; a password in the updates
\* is plaintext, so changed('password') holds and beforeUpdate hashes it
update(rows, id, updates) ==
    [rows EXCEPT ![id] =
        [@ EXCEPT !.password =
            IF updates.password # Null THEN bcryptHash(updates.password[1]) ELSE @]]

\* A request slot.  route, email, token: the request; user: the instance
\* findOne returned, with the handler's assignments; resp: the response.
\* History, for the properties only: read (the row as findOne returned it),
\* lookedUp (findOne was called), checkedAt (the time of the checks),
\* afterOk (a success for this email had been answered before the request came),
\* afterExpired (expired had been answered for this email and token before).
IdleReq ==
    [pc |-> "idle", route |-> "users", email |-> Missing, token |-> Missing,
     user |-> Null, resp |-> Null, read |-> Null, lookedUp |-> FALSE,
     checkedAt |-> Null, afterOk |-> FALSE, afterExpired |-> FALSE]

\* Requests are handled by interchangeable slots; a new request takes the
\* first idle slot
idle == {r \in Reqs : req[r].pc = "idle"}

firstIdle == IF idle = {} THEN 0 ELSE CHOOSE r \in idle : \A q \in idle : r <= q

\* The request of slot r is answered: the response is sent, the slot is idle again
Respond(r, q, resp) ==
    /\ req' = [req EXCEPT ![r] = IdleReq]
    /\ last' = Some([q EXCEPT !.pc = "done", !.resp = Some(resp)])

\* Request received: parameter validation, then User.findOne
VerifyLookup(r, route, email, token) ==
    /\ last = Null
    /\ r = firstIdle
    /\ LET owners == {i \in 1..Len(users) : users[i].email = email}
           start == [IdleReq EXCEPT
                        !.route = route, !.email = email, !.token = token,
                        !.afterOk = \E i \in owners : successes[i] > 0,
                        !.afterExpired = \E i \in owners : <<i, token>> \in expiredSeen]
           bad == validateParams(route, email, token)
           found == findOne(email)
           looked == [start EXCEPT !.lookedUp = TRUE]
       IN  IF bad # Null THEN Respond(r, start, bad[1])
           ELSE IF found = Null THEN Respond(r, looked, UserNotFound)
           ELSE /\ req' = [req EXCEPT ![r] =
                        [looked EXCEPT !.pc = "loaded", !.user = found, !.read = found]]
                /\ UNCHANGED last
    /\ UNCHANGED <<users, now, successes, expiredSeen, products, images, health_checks, sns>>

\* VerifyCheck that issues a fresh expiry window when it answers expired
VerifyCheck_autoReissue(r) ==
    /\ last = Null
    /\ req[r].pc = "loaded"
    /\ LET q == [req[r] EXCEPT !.checkedAt = Some(now)]
           user == q.user[1]
           early == verifyChecks(q.route, user, q.token, now)
           expired == early = Some(TokenExpired(q.route))
       IN  /\ IF early # Null THEN Respond(r, q, early[1])
              ELSE /\ req' = [req EXCEPT ![r] =
                          [q EXCEPT !.pc = "saving", !.user = Some(markVerified(user))]]
                   /\ UNCHANGED last
           /\ expiredSeen' =
                  IF expired THEN expiredSeen \cup {<<user.id, q.token>>} ELSE expiredSeen
           /\ users' =
                  IF expired
                  THEN [users EXCEPT ![user.id].token_created_at = Some(now)]
                  ELSE users
    /\ UNCHANGED <<now, successes, products, images, health_checks, sns>>

\* findOne resolved: the checks, and on success the assignments and the call of save()
VerifyCheck(r) ==
    /\ last = Null
    /\ req[r].pc = "loaded"
    /\ LET q == [req[r] EXCEPT !.checkedAt = Some(now)]
           user == q.user[1]
           early == verifyChecks(q.route, user, q.token, now)
       IN  /\ IF early # Null THEN Respond(r, q, early[1])
              ELSE /\ req' = [req EXCEPT ![r] =
                          [q EXCEPT !.pc = "saving", !.user = Some(markVerified(user))]]
                   /\ UNCHANGED last
           /\ expiredSeen' =
                  IF early = Some(TokenExpired(q.route))
                  THEN expiredSeen \cup {<<user.id, q.token>>}
                  ELSE expiredSeen
    /\ UNCHANGED <<users, now, successes, products, images, health_checks, sns>>

\* save() resolved: the row is written and the success response is sent
VerifySave(r) ==
    /\ last = Null
    /\ req[r].pc = "saving"
    /\ users' = save(users, req[r].user[1])
    /\ successes' = [successes EXCEPT ![req[r].user[1].id] = @ + 1]
    /\ Respond(r, req[r], VerifiedOk)
    /\ UNCHANGED <<now, expiredSeen, products, images, health_checks, sns>>

-----------------------------------------------------------------------------
(* POST /v1/user, PUT and PATCH /v1/user/:userId *)

CreateUser(email, password) ==
    /\ last = Null
    /\ Len(users) < MaxUsers
    /\ findOne(email) = Null
    /\ LET id == Len(users) + 1
       IN  users' = Append(users, newUser(id, email, password, generatedToken(id), now))
    /\ UNCHANGED <<now, req, last, successes, expiredSeen, products, images, health_checks, sns>>

\* PUT carries a password; PATCH may carry only names (password absent)
UpdateUser(authEmail, authPassword, userId, newPassword) ==
    /\ last = Null
    /\ authenticate(authEmail, authPassword) = 0
    /\ userId = UserAuthenticate(authEmail, authPassword)[1].id
    /\ findByPk(userId) # Null
    /\ users' = update(users, userId, [password |-> newPassword])
    /\ UNCHANGED <<now, req, last, successes, expiredSeen, products, images, health_checks, sns>>

\* Time passes
Tick ==
    /\ last = Null
    /\ \E t \in Instants : t > now /\ now' = t
    /\ UNCHANGED <<users, req, last, successes, expiredSeen, products, images, health_checks, sns>>

\* The event loop runs one handler segment at a time; the response a segment
\* wrote is flushed to the client before the next segment runs
Flush ==
    /\ last # Null
    /\ last' = Null
    /\ UNCHANGED <<users, now, req, successes, expiredSeen, products, images, health_checks, sns>>

-----------------------------------------------------------------------------

Init ==
    /\ users = <<>>
    /\ now = 0
    /\ req = [r \in Reqs |-> IdleReq]
    /\ last = Null
    /\ successes = [i \in 1..MaxUsers |-> 0]
    /\ expiredSeen = {}
    /\ products = <<>>
    /\ images = <<>>
    /\ health_checks = <<>>
    /\ sns = <<>>

Next ==
    \/ \E r \in Reqs, route \in Routes, e \in QueryEmails, t \in QueryTokens :
          VerifyLookup(r, route, e, t)
    \/ \E r \in Reqs : VerifyCheck(r)
    \/ \E r \in Reqs : VerifySave(r)
    \/ \E e \in {EmailA, EmailB} : CreateUser(e, "secret1")
    \/ \E e \in {EmailA, EmailB}, p \in Passwords, id \in 1..MaxUsers,
          np \in {Null} \cup {Some(x) : x \in Passwords} :
          UpdateUser(e, p, id, np)
    \/ Tick
    \/ Flush

Spec == Init /\ [][Next]_vars

-----------------------------------------------------------------------------
(* Basic credentials: the Authorization header and its decoding *)

\* The UTF-8 code of each character of the emails and passwords
code(c) ==
    CASE c = "." -> 46
      [] c = "1" -> 49
      [] c = "2" -> 50
      [] c = ":" -> 58
      [] c = "@" -> 64
      [] c = "a" -> 97
      [] c = "b" -> 98
      [] c = "c" -> 99
      [] c = "e" -> 101
      [] c = "r" -> 114
      [] c = "s" -> 115
      [] c = "t" -> 116
      [] c = "x" -> 120
      [] c = "z" -> 122

\* The strings a credential is made of, or decodes to
CredentialStrings ==
    {EmailA, EmailB, Missing, "secret1", "secret2",
     PasswordColon, PasswordSuffixed, ColonPrefix}

\* The bytes of a string
bytes(s) == [i \in 1..Len(chars(s)) |-> code(chars(s)[i])]

\* toString('utf-8') of a piece of the decoded credential; "?" stands for
\* any string outside the alphabets
text(bs) ==
    IF \E s \in CredentialStrings : bytes(s) = bs
    THEN CHOOSE s \in CredentialStrings : bytes(s) = bs
    ELSE "?"

\* The padding character of base64, next to the sextets 0..63
Pad == 64

\* What the client puts after 'Basic ': three bytes become four sextets, a
\* last group of one or two bytes is padded
base64Encode(bs) ==
    LET n == Len(bs)
        byte(j) == IF j <= n THEN bs[j] ELSE 0
        sextet(i) ==
            LET k == (i - 1) \div 4
                r == (i - 1) % 4
                b1 == byte(3 * k + 1)
                b2 == byte(3 * k + 2)
                b3 == byte(3 * k + 3)
            IN  IF r = 0 THEN b1 \div 4
                ELSE IF r = 1 THEN (b1 % 4) * 16 + b2 \div 16
                ELSE IF r = 2
                THEN IF 3 * k + 2 > n THEN Pad ELSE (b2 % 16) * 4 + b3 \div 64
                ELSE IF 3 * k + 3 > n THEN Pad ELSE b3 % 64
    IN  [i \in 1..(4 * ((n + 2) \div 3)) |-> sextet(i)]

\* Buffer.from(authValue, 'base64'): four sextets become three bytes, the
\* padding carries no data
base64Decode(ss) ==
    LET s == SelectSeq(ss, LAMBDA x : x # Pad)
        m == Len(s)
        sx(t) == IF t <= m THEN s[t] ELSE 0
        byte(j) ==
            LET k == (j - 1) \div 3
                r == (j - 1) % 3
                s1 == sx(4 * k + 1)
                s2 == sx(4 * k + 2)
                s3 == sx(4 * k + 3)
                s4 == sx(4 * k + 4)
            IN  IF r = 0 THEN s1 * 4 + s2 \div 16
                ELSE IF r = 1 THEN (s2 % 16) * 16 + s3 \div 4
                ELSE (s3 % 4) * 64 + s4
    IN  [j \in 1..((m * 6) \div 8) |-> byte(j)]

\* String.prototype.split(sep): every piece between two separators
split(bs, sep) ==
    LET at == {i \in 1..Len(bs) : bs[i] = sep}
        n == Cardinality(at)
        cut(k) == IF k = 0 THEN 0
                  ELSE IF k = n + 1 THEN Len(bs) + 1
                  ELSE CHOOSE i \in at : Cardinality({j \in at : j <= i}) = k
    IN  [k \in 1..(n + 1) |-> SubSeq(bs, cut(k - 1) + 1, cut(k) - 1)]

\* No Authorization header
NoHeader == Null

\* 'Basic ' followed by base64(email:password)
BasicHeader(email, password) ==
    Some([scheme |-> "Basic",
          value |-> base64Encode(bytes(email) \o <<code(":")>> \o bytes(password))])

BearerHeader == Some([scheme |-> "Bearer", value |-> <<>>])

\* The credentials clients present
AuthEmails == {EmailA, EmailB}

AuthPasswords == {"secret1", "secret2", PasswordColon, PasswordSuffixed, Missing}

\* The passwords accounts are registered with
StoredPasswords == {"secret1", PasswordColon}

\* The two User.authenticate of the model file: 1 returns the instance,
\* 2 returns a plain object of six columns
AuthVersions == {1, 2}

\* User.authenticate that returns { id, email, first_name, last_name,
\* account_created, account_updated }: the user data without password, or null
UserAuthenticateStatic(email, password) ==
    LET found == findOne(email)
    IN  IF found = Null THEN Null
        ELSE IF ~bcryptCompare(password, found[1].password) THEN Null
        ELSE Some([id |-> found[1].id, email |-> found[1].email])

WWWAuthenticate == {<<"WWW-Authenticate", "Basic realm=\"User Authentication\"">>}

AuthResp(status, body, headers) ==
    [status |-> status, body |-> body, headers |-> headers]

AuthenticationRequired ==
    AuthResp(401, [error |-> "Authentication required"], WWWAuthenticate)

BasicRequired ==
    AuthResp(401, [error |-> "Basic authentication required"], WWWAuthenticate)

InvalidCredentialsFormat ==
    AuthResp(401, [error |-> "Invalid credentials format"], WWWAuthenticate)

InvalidEmailOrPassword ==
    AuthResp(401, [error |-> "Invalid email or password"], WWWAuthenticate)

EmailNotVerified ==
    AuthResp(403,
        [error |-> "Email not verified. Please verify your email before accessing this resource.",
         email_verified |-> FALSE],
        {})

\* The middleware answered itself; the route handler does not run
Denied(resp) == [next |-> FALSE, user |-> Null, resp |-> Some(resp)]

\* The middleware called next() with req.user
Passed(user) == [next |-> TRUE, user |-> user, resp |-> Null]

\* What a client presents: no header, a Bearer header, or Basic credentials
Credentials ==
    {[kind |-> "none", email |-> Missing, password |-> Missing],
     [kind |-> "bearer", email |-> Missing, password |-> Missing]}
        \cup {[kind |-> "basic", email |-> e, password |-> p] :
                 e \in AuthEmails, p \in AuthPasswords}

\* The Authorization header of each of them
Authorization ==
    [cred \in Credentials |->
        IF cred.kind = "none" THEN NoHeader
        ELSE IF cred.kind = "bearer" THEN BearerHeader
        ELSE BasicHeader(cred.email, cred.password)]

headerOf(cred) == Authorization[cred]

\* const [email, password] = credentials.split(':')
parseCredentials(authValue) ==
    LET parts == split(base64Decode(authValue), code(":"))
    IN  [email |-> text(parts[1]),
         password |-> IF Len(parts) >= 2 THEN text(parts[2]) ELSE Missing]

\* The decoding of every authValue a client sends
decoded ==
    [authValue \in {Authorization[c][1].value : c \in {x \in Credentials : x.kind = "basic"}}
        |-> parseCredentials(authValue)]

\* authenticate, from the result of User.authenticate on
authenticateUser(user) ==
    IF user = Null THEN Denied(InvalidEmailOrPassword)
    ELSE IF "email_verified" \notin DOMAIN user[1] \/ ~user[1].email_verified
    THEN Denied(EmailNotVerified)
    ELSE Passed(user)

\* authenticate, from the decoded credentials on
authenticateCredentials(c, version) ==
    IF c.email = Missing \/ c.password = Missing
    THEN Denied(InvalidCredentialsFormat)
    ELSE authenticateUser(IF version = 1
                          THEN UserAuthenticate(c.email, c.password)
                          ELSE UserAuthenticateStatic(c.email, c.password))

\* The middleware authenticate on the Authorization header of a request, with
\* either User.authenticate: what it answers, or next() with req.user
authenticateRequest(header, version) ==
    IF header = Null THEN Denied(AuthenticationRequired)
    ELSE IF header[1].scheme # "Basic" THEN Denied(BasicRequired)
    ELSE authenticateCredentials(decoded[header[1].value], version)

-----------------------------------------------------------------------------
(* Requests to the user routes, each handled without interleaving *)

\* User.prototype.toJSON: the columns of the instance without password
toJSON(user) == [k \in DOMAIN user \ {"password"} |-> user[k]]

\* POST /v1/user with a valid body: the duplicate check, User.create, the
\* created user as the response body
PostUser(email, password) ==
    /\ last = Null
    /\ findOne(email) # Null \/ Len(users) < MaxUsers
    /\ LET id == Len(users) + 1
           user == newUser(id, email, password, generatedToken(id), now)
           q == [op |-> "POST /v1/user", email |-> email]
       IN  IF findOne(email) # Null
           THEN /\ last' = Some([q EXCEPT !.resp =
                        AuthResp(400, [error |-> "User with this email already exists"], {})])
                /\ UNCHANGED users
           ELSE /\ users' = Append(users, user)
                /\ last' = Some([op |-> "POST /v1/user", email |-> email,
                                 resp |-> AuthResp(201, toJSON(user), {})])
    /\ UNCHANGED <<now, req, successes, expiredSeen, products, images, health_checks, sns>>

\* GET /v1/user/verify of routes/users.js, from the request to the response
VerifyNow(email, token) ==
    /\ last = Null
    /\ LET bad == validateParams("users", email, token)
           found == findOne(email)
           early == verifyChecks("users", found[1], token, now)
           q == [op |-> "GET /v1/user/verify", email |-> email, token |-> token]
       IN  IF bad # Null
           THEN /\ last' = Some(q @@ [resp |-> bad[1]])
                /\ UNCHANGED <<users, successes>>
           ELSE IF found = Null
           THEN /\ last' = Some(q @@ [resp |-> UserNotFound])
                /\ UNCHANGED <<users, successes>>
           ELSE IF early # Null
           THEN /\ last' = Some(q @@ [resp |-> early[1]])
                /\ UNCHANGED <<users, successes>>
           ELSE /\ users' = save(users, markVerified(found[1]))
                /\ successes' = [successes EXCEPT ![found[1].id] = @ + 1]
                /\ last' = Some(q @@ [resp |-> VerifiedOk])
    /\ UNCHANGED <<now, req, expiredSeen, products, images, health_checks, sns>>

\* GetUser whose middleware withdraws the pending token of an identity that
\* presents correct credentials before it is verified
GetUser_withdrawToken(cred, version, userId) ==
    /\ last = Null
    /\ LET a == authenticateRequest(headerOf(cred), version)
       IN  /\ last' = Some([op |-> "GET /v1/user/:userId", cred |-> cred,
                            version |-> version, userId |-> userId,
                            next |-> a.next, user |-> a.user, auth |-> a.resp,
                            resp |-> IF a.next THEN AuthResp(200, <<>>, {}) ELSE a.resp[1]])
           /\ users' = IF a.resp = Some(EmailNotVerified)
                       THEN [users EXCEPT ![findOne(cred.email)[1].id] =
                                [@ EXCEPT !.verification_token = Null,
                                          !.token_created_at = Null]]
                       ELSE users
    /\ UNCHANGED <<now, req, successes, expiredSeen, products, images, health_checks, sns>>

\* GET /v1/user/:userId behind the middleware authenticate.  The ids 1, 2, ..
\* stand for the UUID primary keys, so every userId is well-formed.  Of the
\* answered request, auth is what the middleware answered itself (null when
\* it called next()) and resp is the response the client got.
GetUser(cred, version, userId) ==
    /\ last = Null
    /\ LET a == authenticateRequest(headerOf(cred), version)
           found == findByPk(userId)
           resp == IF ~a.next THEN a.resp[1]
                   ELSE IF userId # a.user[1].id
                   THEN AuthResp(403,
                            [error |-> "You can only access your own user information"], {})
                   ELSE IF found = Null
                   THEN AuthResp(404, [error |-> "User not found"], {})
                   ELSE AuthResp(200, toJSON(found[1]), {})
       IN  last' = Some([op |-> "GET /v1/user/:userId", cred |-> cred,
                         version |-> version, userId |-> userId,
                         next |-> a.next, user |-> a.user, auth |-> a.resp,
                         resp |-> resp])
    /\ UNCHANGED <<users, now, req, successes, expiredSeen, products, images, health_checks, sns>>

NextAuth ==
    \/ \E e \in AuthEmails, p \in StoredPasswords : PostUser(e, p)
    \/ \E e \in AuthEmails, t \in {TokenA, TokenB} : VerifyNow(e, t)
    \/ \E c \in Credentials, v \in AuthVersions, id \in 1..(MaxUsers + 1) :
          GetUser(c, v, id)
    \/ Flush

SpecAuth == Init /\ [][NextAuth]_vars

-----------------------------------------------------------------------------
(* The product and image routes, each request handled without interleaving *)

\* Allowed fields for product creation/update
PRODUCT_FIELDS == {"name", "description", "sku", "manufacturer", "quantity"}

\* Request bodies: two complete products, a partial update, no field at all,
\* and a complete product together with an owner_user_id
BodyOne ==
    [name |-> "n1", description |-> "d", sku |-> "S1", manufacturer |-> "m",
     quantity |-> 1]

BodyTwo ==
    [name |-> "n2", description |-> "d", sku |-> "S2", manufacturer |-> "m",
     quantity |-> 1]

BodyName == [name |-> "n2"]

BodyEmpty == [k \in {} |-> 0]

BodyOwner ==
    [name |-> "n2", description |-> "d", sku |-> "S2", manufacturer |-> "m",
     quantity |-> 1, owner_user_id |-> 2]

Bodies == {BodyOne, BodyTwo, BodyName, BodyEmpty, BodyOwner}

\* The multipart body of an upload that carries a file
BodyImage == [image |-> "photo.png"]

\* The ids requests name
PathIds == {ProductA, ProductB, GhostId, MalformedId}

\* The callers of the product routes: the two verified accounts, and no header
ProductCredentials ==
    {[kind |-> "none", email |-> Missing, password |-> Missing],
     [kind |-> "basic", email |-> EmailA, password |-> "secret1"],
     [kind |-> "basic", email |-> EmailB, password |-> "secret1"]}

\* The id Product.create generates for the n-th product: a fresh v4 UUID
generatedId(n) == <<ProductA, ProductB, ProductC>>[n]

BadRequest(message) == AuthResp(400, [error |-> message], {})

ProductNotFound == AuthResp(404, [error |-> "Product not found"], {})

Forbidden(message) == AuthResp(403, [error |-> message], {})

NoContent == AuthResp(204, <<>>, {})

\* rejectUnknownFields(allowedFields): the rejection, or Null
rejectUnknownFields(allowedFields, body) ==
    IF DOMAIN body \subseteq allowedFields THEN Null
    ELSE Some(BadRequest("Unknown fields"))

\* validateProductCreate with checkValidation, on bodies whose values are valid
validateProductCreate(body) ==
    IF {"name", "description", "sku", "manufacturer"} \subseteq DOMAIN body THEN Null
    ELSE Some(BadRequest("errors"))

\* validateProductUpdate with checkValidation, on bodies whose values are valid
validateProductUpdate(body) ==
    IF DOMAIN body \cap {"date_added", "date_last_updated", "owner_user_id", "id"} = {}
    THEN Null
    ELSE Some(BadRequest("errors"))

\* The live rows of the products table
liveProducts == {products[i][1] : i \in {j \in 1..Len(products) : products[j] # Null}}

\* Product.findByPk(productId)
findProductByPk(productId) ==
    LET rows == {p \in liveProducts : p.id = productId}
    IN  IF rows = {} THEN Null ELSE Some(CHOOSE p \in rows : TRUE)

\* Product.findOne({ where: { sku } })
findProductBySku(sku) ==
    LET rows == {p \in liveProducts : p.sku = sku}
    IN  IF rows = {} THEN Null ELSE Some(CHOOSE p \in rows : TRUE)

\* Product.findOne({ where: { id: product_id, owner_user_id: userId } })
findOwnedProduct(productId, userId) ==
    LET rows == {p \in liveProducts : p.id = productId /\ p.owner_user_id = userId}
    IN  IF rows = {} THEN Null ELSE Some(CHOOSE p \in rows : TRUE)

\* newProduct that records no owner
newProduct_noOwner(id, body, user) ==
    [id |-> id, name |-> body.name, description |-> body.description,
     sku |-> body.sku, manufacturer |-> body.manufacturer,
     quantity |-> IF "quantity" \in DOMAIN body THEN body.quantity ELSE 0,
     owner_user_id |-> 0]

\* The row Product.create inserts
newProduct(id, body, user) ==
    [id |-> id, name |-> body.name, description |-> body.description,
     sku |-> body.sku, manufacturer |-> body.manufacturer,
     quantity |-> IF "quantity" \in DOMAIN body THEN body.quantity ELSE 0,
     owner_user_id |-> user.id]

\* The fields of the body the update handlers pass on
updatesOf(body) == [k \in DOMAIN body \cap PRODUCT_FIELDS |-> body[k]]

\* product.update(updates): the given columns of the row are written
productUpdate(rows, id, updates) ==
    [i \in 1..Len(rows) |->
        IF rows[i] # Null /\ rows[i][1].id = id
        THEN Some([k \in DOMAIN rows[i][1] |->
                     IF k \in DOMAIN updates THEN updates[k] ELSE rows[i][1][k]])
        ELSE rows[i]]

\* product.destroy(): the row is gone
productDestroy(rows, id) ==
    [i \in 1..Len(rows) |->
        IF rows[i] # Null /\ rows[i][1].id = id THEN Null ELSE rows[i]]

\* The images of a deleted product go with it (onDelete: 'CASCADE')
cascade(rows, productId) ==
    [i \in 1..Len(rows) |->
        IF rows[i] # Null /\ rows[i][1].product_id = productId THEN Null ELSE rows[i]]

\* The ownership check that lets everybody through
notOwner_never(product, user) == FALSE

\* Check ownership: product.owner_user_id !== req.user.id
notOwner(product, user) == product.owner_user_id # user.id

\* What every product and image route records of a request: auth is what the
\* middleware authenticate answered (null when it called next()), identity is
\* req.user, target the product with the id of the path as it was when the
\* request came
Request(op, cred, a, productId, body) ==
    [op |-> op, cred |-> cred, auth |-> a.resp, identity |-> a.user,
     productId |-> productId, body |-> body, target |-> findProductByPk(productId)]

\* The request of a caller that needs no credentials
Public(op, productId) ==
    [op |-> op, cred |-> [kind |-> "none", email |-> Missing, password |-> Missing],
     auth |-> Null, identity |-> Null,
     productId |-> productId, body |-> BodyEmpty, target |-> findProductByPk(productId)]

Answer(q, resp) == last' = Some(q @@ [resp |-> resp])

PostProductHandler(q, id) ==
    IF q.auth # Null THEN Answer(q, q.auth[1]) /\ UNCHANGED products
    ELSE IF rejectUnknownFields(PRODUCT_FIELDS, q.body) # Null
    THEN Answer(q, BadRequest("Unknown fields")) /\ UNCHANGED products
    ELSE IF validateProductCreate(q.body) # Null
    THEN Answer(q, BadRequest("errors")) /\ UNCHANGED products
    ELSE IF findProductBySku(q.body.sku) # Null
    THEN /\ Answer(q, BadRequest("Product with this SKU already exists"))
         /\ UNCHANGED products
    ELSE /\ Len(products) < MaxProducts
         /\ products' = Append(products, Some(newProduct(id, q.body, q.identity[1])))
         /\ Answer(q, AuthResp(201, newProduct(id, q.body, q.identity[1]), {}))

\* POST /v1/product
CreateProduct(cred, body) ==
    /\ last = Null
    /\ PostProductHandler(
           Request("POST /v1/product", cred, authenticateRequest(headerOf(cred), 1),
                   Missing, body),
           generatedId(Len(products) + 1))
    /\ UNCHANGED <<users, now, req, successes, expiredSeen, images, health_checks, sns>>

\* GET /v1/product/:productId (public endpoint)
GetProduct(productId, payload) ==
    /\ last = Null
    /\ last' = Some(Public("GET /v1/product/:productId", productId) @@
          [resp |-> IF payload THEN BadRequest("Request body not allowed")
                    ELSE IF ~uuidRegex(chars(productId))
                    THEN BadRequest("Invalid product ID format")
                    ELSE IF findProductByPk(productId) = Null THEN ProductNotFound
                    ELSE AuthResp(200, findProductByPk(productId)[1], {})])
    /\ UNCHANGED <<users, now, req, successes, expiredSeen, products, images, health_checks, sns>>

PutProductHandler(q) ==
    IF q.auth # Null THEN Answer(q, q.auth[1]) /\ UNCHANGED products
    ELSE IF rejectUnknownFields(PRODUCT_FIELDS, q.body) # Null
    THEN Answer(q, BadRequest("Unknown fields")) /\ UNCHANGED products
    ELSE IF validateProductUpdate(q.body) # Null
    THEN Answer(q, BadRequest("errors")) /\ UNCHANGED products
    ELSE IF ~uuidRegex(chars(q.productId))
    THEN Answer(q, BadRequest("Invalid product ID format")) /\ UNCHANGED products
    ELSE IF ~(PRODUCT_FIELDS \subseteq DOMAIN q.body)
    THEN Answer(q, BadRequest("PUT requires all fields")) /\ UNCHANGED products
    ELSE IF q.target = Null THEN Answer(q, ProductNotFound) /\ UNCHANGED products
    ELSE IF notOwner(q.target[1], q.identity[1])
    THEN /\ Answer(q, Forbidden("You do not have permission to update this product"))
         /\ UNCHANGED products
    ELSE IF q.body.sku # q.target[1].sku /\ findProductBySku(q.body.sku) # Null
    THEN /\ Answer(q, BadRequest("Product with this SKU already exists"))
         /\ UNCHANGED products
    ELSE /\ products' = productUpdate(products, q.productId, updatesOf(q.body))
         /\ Answer(q, NoContent)

\* PUT /v1/product/:productId
PutProduct(cred, productId, body) ==
    /\ last = Null
    /\ PutProductHandler(
           Request("PUT /v1/product/:productId", cred,
                   authenticateRequest(headerOf(cred), 1), productId, body))
    /\ UNCHANGED <<users, now, req, successes, expiredSeen, images, health_checks, sns>>

PatchProductHandler(q) ==
    IF q.auth # Null THEN Answer(q, q.auth[1]) /\ UNCHANGED products
    ELSE IF rejectUnknownFields(PRODUCT_FIELDS, q.body) # Null
    THEN Answer(q, BadRequest("Unknown fields")) /\ UNCHANGED products
    ELSE IF validateProductUpdate(q.body) # Null
    THEN Answer(q, BadRequest("errors")) /\ UNCHANGED products
    ELSE IF ~uuidRegex(chars(q.productId))
    THEN Answer(q, BadRequest("Invalid product ID format")) /\ UNCHANGED products
    ELSE IF q.target = Null THEN Answer(q, ProductNotFound) /\ UNCHANGED products
    ELSE IF notOwner(q.target[1], q.identity[1])
    THEN /\ Answer(q, Forbidden("You do not have permission to update this product"))
         /\ UNCHANGED products
    ELSE IF DOMAIN updatesOf(q.body) = {}
    THEN Answer(q, BadRequest("No valid fields to update")) /\ UNCHANGED products
    ELSE IF /\ "sku" \in DOMAIN q.body
            /\ q.body.sku # q.target[1].sku
            /\ findProductBySku(q.body.sku) # Null
    THEN /\ Answer(q, BadRequest("Product with this SKU already exists"))
         /\ UNCHANGED products
    ELSE /\ products' = productUpdate(products, q.productId, updatesOf(q.body))
         /\ Answer(q, NoContent)

\* PATCH /v1/product/:productId
PatchProduct(cred, productId, body) ==
    /\ last = Null
    /\ PatchProductHandler(
           Request("PATCH /v1/product/:productId", cred,
                   authenticateRequest(headerOf(cred), 1), productId, body))
    /\ UNCHANGED <<users, now, req, successes, expiredSeen, images, health_checks, sns>>

\* A body on a DELETE is a body with some field
DeleteProductHandler(q) ==
    IF q.auth # Null THEN Answer(q, q.auth[1]) /\ UNCHANGED <<products, images>>
    ELSE IF DOMAIN q.body # {}
    THEN Answer(q, BadRequest("Request body not allowed")) /\ UNCHANGED <<products, images>>
    ELSE IF ~uuidRegex(chars(q.productId))
    THEN Answer(q, BadRequest("Invalid product ID format")) /\ UNCHANGED <<products, images>>
    ELSE IF q.target = Null THEN Answer(q, ProductNotFound) /\ UNCHANGED <<products, images>>
    ELSE IF notOwner(q.target[1], q.identity[1])
    THEN /\ Answer(q, Forbidden("You do not have permission to delete this product"))
         /\ UNCHANGED <<products, images>>
    ELSE /\ products' = productDestroy(products, q.productId)
         /\ images' = cascade(images, q.productId)
         /\ Answer(q, NoContent)

\* DELETE /v1/product/:productId
DeleteProduct(cred, productId, body) ==
    /\ last = Null
    /\ DeleteProductHandler(
           Request("DELETE /v1/product/:productId", cred,
                   authenticateRequest(headerOf(cred), 1), productId, body))
    /\ UNCHANGED <<users, now, req, successes, expiredSeen, health_checks, sns>>

\* The live rows of the images table
liveImages == {images[i][1] : i \in {j \in 1..Len(images) : images[j] # Null}}

\* The row Image.create inserts
newImage(imageId, productId, user) ==
    [image_id |-> imageId, product_id |-> productId, owner_user_id |-> user.id]

UploadImageHandler(q, file) ==
    IF q.auth # Null THEN Answer(q, q.auth[1]) /\ UNCHANGED images
    ELSE IF ~file THEN Answer(q, BadRequest("No image file provided")) /\ UNCHANGED images
    ELSE IF findOwnedProduct(q.productId, q.identity[1].id) = Null
    THEN /\ Answer(q, Forbidden("Product not found or you do not have permission to add images to this product"))
         /\ UNCHANGED images
    ELSE /\ \A i \in liveImages : i.product_id # q.productId
         /\ images' = Append(images,
                         Some(newImage(Len(images) + 1, q.productId, q.identity[1])))
         /\ Answer(q, AuthResp(201,
                         newImage(Len(images) + 1, q.productId, q.identity[1]), {}))

\* POST /v1/product/:product_id/image.  S3 takes every upload, and a product
\* gets at most one image.
UploadImage(cred, productId, file) ==
    /\ last = Null
    /\ UploadImageHandler(
           Request("POST /v1/product/:product_id/image", cred,
                   authenticateRequest(headerOf(cred), 1), productId,
                   IF file THEN BodyImage ELSE BodyEmpty),
           file)
    /\ UNCHANGED <<users, now, req, successes, expiredSeen, products, health_checks, sns>>

ListImagesHandler(q) ==
    IF q.auth # Null THEN Answer(q, q.auth[1])
    ELSE IF findOwnedProduct(q.productId, q.identity[1].id) = Null
    THEN Answer(q, Forbidden("Product not found or you do not have permission to view images for this product"))
    ELSE Answer(q, AuthResp(200, {i \in liveImages : i.product_id = q.productId}, {}))

\* GET /v1/product/:product_id/image
ListImages(cred, productId) ==
    /\ last = Null
    /\ ListImagesHandler(
           Request("GET /v1/product/:product_id/image", cred,
                   authenticateRequest(headerOf(cred), 1), productId, BodyEmpty))
    /\ UNCHANGED <<users, now, req, successes, expiredSeen, products, images, health_checks, sns>>

\* Image.findOne({ where: { image_id, product_id, owner_user_id } })
findOwnedImage(imageId, productId, userId) ==
    {i \in liveImages : /\ i.image_id = imageId
                        /\ i.product_id = productId
                        /\ i.owner_user_id = userId}

DeleteImageHandler(q, imageId) ==
    IF q.auth # Null THEN Answer(q, q.auth[1]) /\ UNCHANGED images
    ELSE IF findOwnedProduct(q.productId, q.identity[1].id) = Null
    THEN /\ Answer(q, Forbidden("Product not found or you do not have permission to delete this image"))
         /\ UNCHANGED images
    ELSE IF findOwnedImage(imageId, q.productId, q.identity[1].id) = {}
    THEN /\ Answer(q, AuthResp(404,
                [error |-> "Image not found or you do not have permission to delete it"], {}))
         /\ UNCHANGED images
    ELSE /\ images' = [i \in 1..Len(images) |-> IF i = imageId THEN Null ELSE images[i]]
         /\ Answer(q, NoContent)

\* DELETE /v1/product/:product_id/image/:image_id.  Whether S3 deletes the
\* object or not, the row is destroyed.
DeleteImage(cred, productId, imageId) ==
    /\ last = Null
    /\ DeleteImageHandler(
           Request("DELETE /v1/product/:product_id/image/:image_id", cred,
                   authenticateRequest(headerOf(cred), 1), productId, BodyEmpty),
           imageId)
    /\ UNCHANGED <<users, now, req, successes, expiredSeen, products, health_checks, sns>>

\* Two accounts, registered and verified, and no product yet
InitProduct ==
    /\ users = [i \in 1..2 |->
                   markVerified(newUser(i, <<EmailA, EmailB>>[i], "secret1",
                                        generatedToken(i), 0))]
    /\ now = 0
    /\ req = [r \in Reqs |-> IdleReq]
    /\ last = Null
    /\ successes = [i \in 1..MaxUsers |-> 0]
    /\ expiredSeen = {}
    /\ products = <<>>
    /\ images = <<>>
    /\ health_checks = <<>>
    /\ sns = <<>>

NextProduct ==
    \/ \E c \in ProductCredentials, b \in Bodies : CreateProduct(c, b)
    \/ \E id \in PathIds, payload \in BOOLEAN : GetProduct(id, payload)
    \/ \E c \in ProductCredentials, id \in PathIds, b \in Bodies : PutProduct(c, id, b)
    \/ \E c \in ProductCredentials, id \in PathIds, b \in Bodies : PatchProduct(c, id, b)
    \/ \E c \in ProductCredentials, id \in PathIds, b \in {BodyEmpty, BodyName} :
          DeleteProduct(c, id, b)
    \/ \E c \in ProductCredentials, id \in PathIds \ {MalformedId}, file \in BOOLEAN :
          UploadImage(c, id, file)
    \/ \E c \in ProductCredentials, id \in PathIds \ {MalformedId} : ListImages(c, id)
    \/ \E c \in ProductCredentials, id \in PathIds \ {MalformedId},
          image \in 1..MaxProducts : DeleteImage(c, id, image)
    \/ Flush

SpecProduct == InitProduct /\ [][NextProduct]_vars

-----------------------------------------------------------------------------
(* GET /healthz and every other method on /healthz *)

Methods == {"GET", "HEAD", "POST", "PUT", "DELETE", "PATCH", "OPTIONS"}

\* req.query and req.body as parsed by express: objects, possibly without keys
Queries == {BodyEmpty, [test |-> "true"]}

HealthBodies == {BodyEmpty, [test |-> "data"]}

\* req.get('content-length'): undefined, or the text of the header
ContentLengths == {Null, Some(LengthZero), Some(LengthFifteen)}

\* What the store does with an INSERT: it succeeds, or it fails in some way
StorageOutcomes == {"ok", "ECONNREFUSED", "ETIMEDOUT", "ER_OPTION_PREVENTS_STATEMENT"}

DigitValue ==
    [c \in {"0", "1", "2", "3", "4", "5", "6", "7", "8", "9"} |->
        CASE c = "0" -> 0 [] c = "1" -> 1 [] c = "2" -> 2 [] c = "3" -> 3
          [] c = "4" -> 4 [] c = "5" -> 5 [] c = "6" -> 6 [] c = "7" -> 7
          [] c = "8" -> 8 [] c = "9" -> 9]

\* parseInt(s) on the characters of s: the value of the leading digits,
\* or null (NaN) when s does not start with a digit
parseInt(cs) ==
    LET digits == {n \in 0..Len(cs) : \A i \in 1..n : cs[i] \in DOMAIN DigitValue}
        n == CHOOSE m \in digits : \A k \in digits : k <= m
        value[i \in 0..n] == IF i = 0 THEN 0 ELSE 10 * value[i - 1] + DigitValue[cs[i]]
    IN  IF n = 0 THEN Null ELSE Some(value[n])

\* The headers every answer of the route sets
NoCacheHeaders ==
    {<<"Cache-Control", "no-cache, no-store, must-revalidate">>,
     <<"Pragma", "no-cache">>,
     <<"X-Content-Type-Options", "nosniff">>}

\* res.status(status).set(..).end(): no body
HealthAnswer(status) == [status |-> status, body |-> Null, headers |-> NoCacheHeaders]

\* Object.keys(req.query).length > 0
hasQueryParams(q) == Cardinality(DOMAIN q.query) > 0

\* req.body && Object.keys(req.body).length > 0
hasBody(q) == Cardinality(DOMAIN q.body) > 0

\* req.get('content-length') && parseInt(req.get('content-length')) > 0
hasContentLength(q) ==
    /\ q.contentLength # Null
    /\ chars(q.contentLength[1]) # <<>>
    /\ parseInt(chars(q.contentLength[1])) # Null
    /\ parseInt(chars(q.contentLength[1]))[1] > 0

\* HealthCheck.create: one INSERT.  rows: the table after it; error: what it
\* threw, or null; writes: the INSERTs attempted
HealthCheckCreate(rows, outcome, t) ==
    IF outcome = "ok"
    THEN [rows |-> Append(rows, [check_id |-> Len(rows) + 1, check_datetime |-> t]),
          error |-> Null, writes |-> 1]
    ELSE [rows |-> rows, error |-> Some([message |-> outcome]), writes |-> 1]

\* createHealthCheckRecord that tries the INSERT a second time when the first failed
createHealthCheckRecord_retry(rows, outcome, t) ==
    LET first == HealthCheckCreate(rows, outcome, t)
    IN  IF first.error = Null THEN first ELSE [first EXCEPT !.writes = 2]

\* HealthCheck.createHealthCheckRecord: the record, or the error wrapped
createHealthCheckRecord(rows, outcome, t) ==
    LET created == HealthCheckCreate(rows, outcome, t)
    IN  IF created.error = Null THEN created
        ELSE [created EXCEPT !.error =
                 Some([message |-> "Failed to create health check record",
                       cause |-> created.error[1].message])]

\* The request as the handlers see it; outcome is what the store would do
\* with an INSERT made now
HealthRequest(method, query, body, contentLength, outcome) ==
    [op |-> "/healthz", method |-> method, query |-> query, body |-> body,
     contentLength |-> contentLength, outcome |-> outcome]

HealthRespond(q, status, writes) ==
    last' = Some(q @@ [writes |-> writes, resp |-> HealthAnswer(status)])

\* payloadRejected that does not look at the content-length header
payloadRejected_noLength(q) == hasQueryParams(q) \/ hasBody(q)

\* hasQueryParams || hasBody || hasContentLength
payloadRejected(q) == hasQueryParams(q) \/ hasBody(q) \/ hasContentLength(q)

\* methodRejected that lets HEAD through to the payload check and the INSERT
methodRejected_headAsGet(q) == FALSE

\* if (req.method === 'HEAD') in the handler of router.get
methodRejected(q) == q.method = "HEAD"

\* insertAnswer that tells a timeout from the other failures
insertAnswer_timeout504(created) ==
    IF created.error = Null THEN 200
    ELSE IF created.error[1].cause = "ETIMEDOUT" THEN 504
    ELSE 503

\* 200 after the await, 503 from the catch block
insertAnswer(created) == IF created.error = Null THEN 200 ELSE 503

\* router.get('/healthz'): express sends GET and HEAD requests here
healthzGet(q) ==
    IF methodRejected(q) THEN HealthRespond(q, 405, 0) /\ UNCHANGED health_checks
    ELSE IF payloadRejected(q) THEN HealthRespond(q, 400, 0) /\ UNCHANGED health_checks
    ELSE LET created == createHealthCheckRecord(health_checks, q.outcome, now)
         IN  /\ health_checks' = created.rows
             /\ HealthRespond(q, insertAnswer(created), created.writes)

\* router.all('/healthz'): the requests router.get did not take
healthzAll(q) ==
    /\ q.method = "HEAD" \/ q.method # "GET"
    /\ HealthRespond(q, 405, 0)
    /\ UNCHANGED health_checks

\* A request to /healthz, from its arrival to its answer
Healthz(method, query, body, contentLength, outcome) ==
    /\ last = Null
    /\ Len(health_checks) < MaxChecks
    /\ LET q == HealthRequest(method, query, body, contentLength, outcome)
       IN  IF method \in {"GET", "HEAD"} THEN healthzGet(q) ELSE healthzAll(q)
    /\ UNCHANGED <<users, now, req, successes, expiredSeen, products, images, sns>>

NextHealth ==
    \/ \E m \in Methods, qs \in Queries, b \in HealthBodies, cl \in ContentLengths,
          o \in StorageOutcomes : Healthz(m, qs, b, cl, o)
    \/ Tick
    \/ Flush

SpecHealth == Init /\ [][NextHealth]_vars

-----------------------------------------------------------------------------
(* POST /v1/user in its steps, PUT and PATCH /v1/user/:userId *)

CREATE_FIELDS == {"email", "password", "first_name", "last_name"}

UPDATE_FIELDS == {"password", "first_name", "last_name"}

\* Bodies of POST /v1/user: three valid ones, of which the first two name the
\* same mailbox, one with a password of two characters, one with a field
\* that is not allowed
CreateA ==
    [email |-> EmailA, password |-> "secret1", first_name |-> "Ann", last_name |-> "Lee"]

CreateUpper ==
    [email |-> EmailUpper, password |-> "secret2", first_name |-> "Ann", last_name |-> "Lee"]

CreateB ==
    [email |-> EmailB, password |-> "secret1", first_name |-> "Bob", last_name |-> "Ray"]

CreateShort ==
    [email |-> EmailB, password |-> ColonPrefix, first_name |-> "Bob", last_name |-> "Ray"]

CreateWithId ==
    [email |-> EmailB, password |-> "secret1", first_name |-> "Bob", last_name |-> "Ray",
     id |-> GhostId]

CreateBodies == {CreateA, CreateUpper, CreateB, CreateShort, CreateWithId}

\* Bodies of PUT and PATCH /v1/user/:userId
UpdateFullOne == [password |-> "secret1", first_name |-> "Ann", last_name |-> "Poe"]

UpdateFullTwo == [password |-> "secret2", first_name |-> "Ann", last_name |-> "Poe"]

UpdatePassword == [password |-> "secret2"]

UpdateName == [first_name |-> "Amy"]

UpdateShort == [password |-> ColonPrefix]

UpdateEmail == [email |-> EmailB, first_name |-> "Amy"]

UpdateBodies ==
    {UpdateFullOne, UpdateFullTwo, UpdatePassword, UpdateName, UpdateShort,
     UpdateEmail, BodyEmpty}

\* The callers of the user routes
UserCredentials ==
    {[kind |-> "none", email |-> Missing, password |-> Missing],
     [kind |-> "basic", email |-> EmailA, password |-> "secret1"],
     [kind |-> "basic", email |-> EmailA, password |-> "secret2"],
     [kind |-> "basic", email |-> EmailB, password |-> "secret1"]}

\* What publishToSNS does: the message is published, or the call throws
PublishOutcomes == {"sent", "threw"}

UpperCase ==
    <<"A", "B", "C", "D", "E", "F", "G", "H", "I", "J", "K", "L", "M",
      "N", "O", "P", "Q", "R", "S", "T", "U", "V", "W", "X", "Y", "Z">>

LowerCase ==
    <<"a", "b", "c", "d", "e", "f", "g", "h", "i", "j", "k", "l", "m",
      "n", "o", "p", "q", "r", "s", "t", "u", "v", "w", "x", "y", "z">>

toLowerCase(c) ==
    IF \E i \in 1..26 : UpperCase[i] = c
    THEN LowerCase[CHOOSE i \in 1..26 : UpperCase[i] = c]
    ELSE c

\* normalizeEmail() of the validation chain: the address in lower case
normalizeEmail(email) ==
    LET lowered == [i \in 1..Len(chars(email)) |-> toLowerCase(chars(email)[i])]
    IN  CHOOSE s \in {EmailA, EmailB, EmailUpper, EmailNoDot} : chars(s) = lowered

\* validateUserCreate with checkValidation, on bodies whose names are valid:
\* the rejection, or Null
validateUserCreate(body) ==
    IF ~emailRegex(chars(body.email)) THEN Some(BadRequest("errors"))
    ELSE IF Len(chars(body.password)) < 6 THEN Some(BadRequest("errors"))
    ELSE Null

\* validateUserUpdate with checkValidation, on bodies whose names are valid
validateUserUpdate(body) ==
    IF "email" \in DOMAIN body THEN Some(BadRequest("errors"))
    ELSE IF "password" \in DOMAIN body /\ Len(chars(body.password)) < 6
    THEN Some(BadRequest("errors"))
    ELSE Null

\* The row User.create inserts for a body
createdUser(id, body, token, t) ==
    newUser(id, body.email, body.password, token, t)
        @@ [first_name |-> body.first_name, last_name |-> body.last_name]

\* The password column holds a text: a bcrypt hash, or, on an instance between
\* set() and the hook, the text the caller sent
literal(plain) == [alg |-> "none", cost |-> 0, of |-> plain]

\* The text of a bcrypt hash, which is no password of the alphabets
HashText == "$2b$10$"

textOf(value) == IF value.alg = "none" THEN value.of ELSE HashText

\* beforeUpdate that hashes the password column whether or not it changed
beforeUpdate_always(previous, user) ==
    [user EXCEPT !.password = bcryptHash(textOf(@))]

\* The hook beforeUpdate: user.changed('password') holds when the value set
\* differs from the stored one
beforeUpdate(previous, user) ==
    IF user.password # previous.password
    THEN [user EXCEPT !.password = bcryptHash(textOf(@))]
    ELSE user

\* user.update(updates) on the instance findByPk returned
userUpdate(rows, id, updates) ==
    LET assigned == [k \in DOMAIN rows[id] |->
                        IF k \notin DOMAIN updates THEN rows[id][k]
                        ELSE IF k = "password" THEN literal(updates[k])
                        ELSE updates[k]]
    IN  [rows EXCEPT ![id] = beforeUpdate(rows[id], assigned)]

\* The message of the verification notification
snsMessage(user) ==
    [userId |-> user.id, email |-> user.email,
     first_name |-> user.first_name, last_name |-> user.last_name,
     verification_token |-> user.verification_token[1]]

\* A slot of POST /v1/user.  body: the validated body; user: the instance
\* User.create returned
IdlePost == [pc |-> "idle", body |-> BodyEmpty, user |-> Null]

PostAnswer(r, q, stage, resp) ==
    /\ req' = [req EXCEPT ![r] = IdlePost]
    /\ last' = Some([op |-> "POST /v1/user", body |-> q.body, stage |-> stage,
                     resp |-> resp])

UserExists == BadRequest("User with this email already exists")

\* Request received: rejectUnknownFields, the validation chain, User.findOne
PostUserReceive(r, body) ==
    /\ last = Null
    /\ r = firstIdle
    /\ LET q == [IdlePost EXCEPT !.body = body]
           unknown == rejectUnknownFields(CREATE_FIELDS, body)
           invalid == validateUserCreate(body)
           email == normalizeEmail(body.email)
       IN  IF unknown # Null THEN PostAnswer(r, q, "validation", unknown[1])
           ELSE IF invalid # Null THEN PostAnswer(r, q, "validation", invalid[1])
           ELSE IF findOne(email) # Null THEN PostAnswer(r, q, "lookup", UserExists)
           ELSE /\ req' = [req EXCEPT ![r] =
                        [q EXCEPT !.pc = "looked", !.body = [body EXCEPT !.email = email]]]
                /\ UNCHANGED last
    /\ UNCHANGED <<users, now, successes, expiredSeen, products, images, health_checks, sns>>

\* PostUserCreate on a table without the unique index on email
PostUserCreate_noIndex(r) ==
    /\ last = Null
    /\ req[r].pc = "looked"
    /\ Len(users) < MaxAccounts
    /\ LET id == Len(users) + 1
           user == createdUser(id, req[r].body, generatedToken(id), now)
       IN  /\ users' = Append(users, user)
           /\ req' = [req EXCEPT ![r] = [@ EXCEPT !.pc = "created", !.user = Some(user)]]
           /\ UNCHANGED last
    /\ UNCHANGED <<now, successes, expiredSeen, products, images, health_checks, sns>>

\* findOne resolved with null: User.create.  The unique index on email makes
\* the INSERT fail when a row with the email is there by now
PostUserCreate(r) ==
    /\ last = Null
    /\ req[r].pc = "looked"
    /\ findOne(req[r].body.email) # Null \/ Len(users) < MaxAccounts
    /\ LET id == Len(users) + 1
           user == createdUser(id, req[r].body, generatedToken(id), now)
       IN  IF findOne(req[r].body.email) # Null
           THEN /\ PostAnswer(r, req[r], "create", UserExists)
                /\ UNCHANGED users
           ELSE /\ users' = Append(users, user)
                /\ req' = [req EXCEPT ![r] = [@ EXCEPT !.pc = "created", !.user = Some(user)]]
                /\ UNCHANGED last
    /\ UNCHANGED <<now, successes, expiredSeen, products, images, health_checks, sns>>

\* PostUserPublish that lets the error of publishToSNS reach the outer catch
PostUserPublish_failOnThrow(r, outcome) ==
    /\ last = Null
    /\ req[r].pc = "created"
    /\ sns' = IF outcome = "sent" THEN Append(sns, snsMessage(req[r].user[1])) ELSE sns
    /\ PostAnswer(r, req[r] @@ [publish |-> outcome], "publish",
                  IF outcome = "sent" THEN AuthResp(201, toJSON(req[r].user[1]), {})
                  ELSE BadRequest("Failed to create user"))
    /\ UNCHANGED <<users, now, successes, expiredSeen, products, images, health_checks>>

\* User.create resolved: publishToSNS inside its own try, then the 201
PostUserPublish(r, outcome) ==
    /\ last = Null
    /\ req[r].pc = "created"
    /\ sns' = IF outcome = "sent" THEN Append(sns, snsMessage(req[r].user[1])) ELSE sns
    /\ req' = [req EXCEPT ![r] = IdlePost]
    /\ last' = Some([op |-> "POST /v1/user", body |-> req[r].body, stage |-> "publish",
                     publish |-> outcome,
                     resp |-> AuthResp(201, toJSON(req[r].user[1]), {})])
    /\ UNCHANGED <<users, now, successes, expiredSeen, products, images, health_checks>>

\* The request of a route behind authenticate, as its handler sees it
UserRequest(op, cred, version, a, userId, body) ==
    [op |-> op, cred |-> cred, version |-> version, auth |-> a.resp,
     identity |-> a.user, userId |-> userId, body |-> body,
     target |-> findByPk(userId)]

\* notSelf that lets every caller through
notSelf_never(q) == FALSE

\* userId !== req.user.id
notSelf(q) == q.userId # q.identity[1].id

\* The handler of PUT /v1/user/:userId behind authenticate,
\* rejectUnknownFields(UPDATE_FIELDS) and the validation chain
PutUserHandler(q) ==
    IF q.auth # Null THEN Answer(q, q.auth[1]) /\ UNCHANGED users
    ELSE IF rejectUnknownFields(UPDATE_FIELDS, q.body) # Null
    THEN Answer(q, BadRequest("Unknown fields")) /\ UNCHANGED users
    ELSE IF validateUserUpdate(q.body) # Null
    THEN Answer(q, BadRequest("errors")) /\ UNCHANGED users
    ELSE IF notSelf(q)
    THEN Answer(q, Forbidden("You can only update your own user information"))
         /\ UNCHANGED users
    ELSE IF ~(UPDATE_FIELDS \subseteq DOMAIN q.body)
    THEN Answer(q, BadRequest("PUT requires all updatable fields: password, first_name, last_name"))
         /\ UNCHANGED users
    ELSE IF q.target = Null
    THEN Answer(q, AuthResp(404, [error |-> "User not found"], {})) /\ UNCHANGED users
    ELSE /\ users' = userUpdate(users, q.userId, q.body)
         /\ Answer(q, NoContent)

PutUser(cred, version, userId, body) ==
    /\ last = Null
    /\ PutUserHandler(
           UserRequest("PUT /v1/user/:userId", cred, version,
                       authenticateRequest(headerOf(cred), version), userId, body))
    /\ UNCHANGED <<now, req, successes, expiredSeen, products, images, health_checks, sns>>

\* The handler of PATCH /v1/user/:userId behind the same middleware
PatchUserHandler(q) ==
    IF q.auth # Null THEN Answer(q, q.auth[1]) /\ UNCHANGED users
    ELSE IF rejectUnknownFields(UPDATE_FIELDS, q.body) # Null
    THEN Answer(q, BadRequest("Unknown fields")) /\ UNCHANGED users
    ELSE IF validateUserUpdate(q.body) # Null
    THEN Answer(q, BadRequest("errors")) /\ UNCHANGED users
    ELSE IF notSelf(q)
    THEN Answer(q, Forbidden("You can only update your own user information"))
         /\ UNCHANGED users
    ELSE IF q.target = Null
    THEN Answer(q, AuthResp(404, [error |-> "User not found"], {})) /\ UNCHANGED users
    ELSE IF DOMAIN q.body \cap UPDATE_FIELDS = {}
    THEN Answer(q, BadRequest("No valid fields to update")) /\ UNCHANGED users
    ELSE /\ users' = userUpdate(users, q.userId, q.body)
         /\ Answer(q, NoContent)

PatchUser(cred, version, userId, body) ==
    /\ last = Null
    /\ PatchUserHandler(
           UserRequest("PATCH /v1/user/:userId", cred, version,
                       authenticateRequest(headerOf(cred), version), userId, body))
    /\ UNCHANGED <<now, req, successes, expiredSeen, products, images, health_checks, sns>>

\* No account yet, no creation request in flight
InitCreate ==
    /\ users = <<>>
    /\ now = 0
    /\ req = [r \in Reqs |-> IdlePost]
    /\ last = Null
    /\ successes = [i \in 1..MaxUsers |-> 0]
    /\ expiredSeen = {}
    /\ products = <<>>
    /\ images = <<>>
    /\ health_checks = <<>>
    /\ sns = <<>>

NextCreate ==
    \/ \E r \in Reqs, b \in CreateBodies : PostUserReceive(r, b)
    \/ \E r \in Reqs : PostUserCreate(r)
    \/ \E r \in Reqs, o \in PublishOutcomes : PostUserPublish(r, o)
    \/ Tick
    \/ Flush

SpecCreate == InitCreate /\ [][NextCreate]_vars

\* The accounts of CreateA and CreateB, registered and verified
InitUpdate ==
    /\ users = [i \in 1..2 |->
                   markVerified(createdUser(i, <<CreateA, CreateB>>[i],
                                            generatedToken(i), 0))]
    /\ now = 0
    /\ req = [r \in Reqs |-> IdlePost]
    /\ last = Null
    /\ successes = [i \in 1..MaxUsers |-> 0]
    /\ expiredSeen = {}
    /\ products = <<>>
    /\ images = <<>>
    /\ health_checks = <<>>
    /\ sns = <<>>

\* The ids of the path: the two accounts, and a well-formed id of no account
PathUserIds == 1..3

NextUpdate ==
    \/ \E c \in UserCredentials, id \in PathUserIds : GetUser(c, 1, id)
    \/ \E c \in UserCredentials, id \in PathUserIds, b \in UpdateBodies :
          PutUser(c, 1, id, b)
    \/ \E c \in UserCredentials, id \in PathUserIds, b \in UpdateBodies :
          PatchUser(c, 1, id, b)
    \/ Flush

SpecUpdate == InitUpdate /\ [][NextUpdate]_vars

-----------------------------------------------------------------------------
(* Properties *)

\* The response of the segment that has just run
Answered == last # Null

L == last[1]

\* The age of the token, in seconds, when the answered request made its checks
AgeAtCheck == L.checkedAt[1] - L.read[1].token_created_at[1]

\* The answered request carried the token that was issued to the identity it read
CorrectToken == L.read # Null /\ L.token = generatedToken(L.read[1].id)

\* The answered request read a pending identity and carried its stored token
PendingMatch ==
    /\ L.read # Null
    /\ ~L.read[1].email_verified
    /\ L.read[1].verification_token = Some(L.token)

\* C1: of the verification requests that race on the same email and the same
\* valid token, at most one is answered 'Email verified successfully': no
\* identity ever collects two success answers.
C1_AtMostOneSuccess == \A i \in 1..MaxUsers : successes[i] <= 1

\* C2: on a pending identity a request with the stored token, checked inside
\* the expiry window, is answered with success; a request that arrives after a
\* success was answered for its email gets 'Email already verified' and never
\* a second success.
C2_OkThenAlreadyVerified ==
    Answered =>
       /\ (PendingMatch /\ AgeAtCheck <= EXPIRY_SECONDS) => L.resp = Some(VerifiedOk)
       /\ (L.afterOk /\ L.read # Null) => L.resp = Some(AlreadyVerified)

C2_Witness ==
    /\ Answered
    /\ L.afterOk
    /\ CorrectToken
    /\ L.resp = Some(AlreadyVerified)
    /\ successes[L.read[1].id] = 1

\* C3 as stated: after a successful verification, a further request with the
\* same email and the token that was consumed is answered invalid-token.
C3_ReplayInvalidToken ==
    (Answered /\ L.afterOk /\ CorrectToken) => L.resp = Some(InvalidToken)

\* C3 as amended: after a successful verification, a further request with the
\* same email and the token that was consumed is answered 'Email already
\* verified', not invalid-token.
C3_ReplayAlreadyVerified ==
    (Answered /\ L.afterOk /\ CorrectToken) =>
        (L.resp = Some(AlreadyVerified) /\ L.resp # Some(InvalidToken))

C3_Witness ==
    /\ Answered
    /\ L.afterOk
    /\ CorrectToken
    /\ L.read[1].email_verified
    /\ L.read[1].verification_token = Null
    /\ L.resp = Some(AlreadyVerified)

\* The three verification columns of every identity
VerificationFields(rows) ==
    [i \in 1..Len(rows) |->
        <<rows[i].email_verified, rows[i].verification_token, rows[i].token_created_at>>]

\* C4 as stated: for an identity that is already verified, a request with its
\* email and any token (here: any token that is present) is answered 'Email
\* already verified'.
C4_AnyTokenAlreadyVerified ==
    (Answered /\ L.afterOk /\ L.token # Missing) => L.resp = Some(AlreadyVerified)

\* C4 as amended: for an identity that is already verified, a request with its
\* email and any token that passes the route's parameter validation is answered
\* 'Email already verified'; whatever the token, the request leaves
\* email_verified, verification_token and token_created_at of every identity
\* unchanged.
C4_AlreadyVerifiedNoChange ==
    [][(last' # Null /\ last'[1].afterOk) =>
          /\ VerificationFields(users') = VerificationFields(users)
          /\ validateParams(last'[1].route, last'[1].email, last'[1].token) = Null
                => last'[1].resp = Some(AlreadyVerified)]_vars

C4_Witness ==
    /\ Answered
    /\ L.afterOk
    /\ L.read # Null
    /\ L.token # generatedToken(L.read[1].id)
    /\ L.resp = Some(AlreadyVerified)

\* C5: in every reachable state, an identity whose email_verified is true has
\* verification_token = null and token_created_at = null.
C5_VerifiedHasNoToken ==
    \A i \in 1..Len(users) :
        users[i].email_verified =>
            (users[i].verification_token = Null /\ users[i].token_created_at = Null)

C5_Witness ==
    \E i \in 1..Len(users) :
        /\ users[i].email_verified
        /\ users[i].password # bcryptHash("secret1")
        /\ successes[i] = 2

\* C6: once email_verified is true it is true in every later state; no step of
\* verify, create or user update sets it back, and no identity disappears.
C6_VerifiedIsStable ==
    [][/\ Len(users') >= Len(users)
       /\ \A i \in 1..Len(users) :
             users[i].email_verified => users'[i].email_verified]_vars

C6_Witness ==
    \E i \in 1..Len(users) :
        /\ users[i].email_verified
        /\ users[i].password = bcryptHash("secret2")

\* C7: with the expiry of 60 seconds and the stored token submitted for a
\* pending identity, a check made 59 seconds after token_created_at is answered
\* with success, and a check made 61 seconds after it is answered expired and
\* changes no identity.
C7_ExpiryBoundary ==
    [][(last' # Null /\ last'[1].read # Null /\ last'[1].checkedAt # Null
        /\ ~last'[1].read[1].email_verified
        /\ last'[1].read[1].verification_token = Some(last'[1].token)) =>
          LET q == last'[1]
              age == q.checkedAt[1] - q.read[1].token_created_at[1]
          IN  /\ age = EXPIRY_SECONDS - 1 =>
                    /\ q.resp = Some(VerifiedOk)
                    /\ users'[q.read[1].id].email_verified
              /\ age = EXPIRY_SECONDS + 1 =>
                    /\ q.resp = Some(TokenExpired(q.route))
                    /\ users' = users]_vars

\* A success checked at 59 seconds, after expired was answered at 61 seconds
C7_Witness ==
    /\ Answered
    /\ PendingMatch
    /\ AgeAtCheck = EXPIRY_SECONDS - 1
    /\ L.resp = Some(VerifiedOk)
    /\ <<L.read[1].id, L.token>> \in expiredSeen
    /\ now = L.read[1].token_created_at[1] + EXPIRY_SECONDS + 1

\* C8: the checks run in the order already-verified, token equality, expiry:
\* for a pending identity a request with a token other than the stored one is
\* answered invalid-token whether or not the stored token has expired, and only
\* a request whose token equals the stored token is answered expired or success.
C8_TokenBeforeExpiry ==
    (Answered /\ L.read # Null) =>
       /\ (~L.read[1].email_verified /\ L.read[1].verification_token # Some(L.token))
             => L.resp = Some(InvalidToken)
       /\ L.resp \in {Some(TokenExpired(L.route)), Some(VerifiedOk)}
             => L.read[1].verification_token = Some(L.token)

C8_Witness ==
    /\ Answered
    /\ L.read # Null
    /\ ~L.read[1].email_verified
    /\ L.token = TokenPrefix
    /\ L.read[1].verification_token = Some(TokenA)
    /\ isTokenExpired(L.read[1], L.checkedAt[1])
    /\ L.resp = Some(InvalidToken)

\* C9 as stated: once expired has been answered for a token, every later
\* request with that token for that identity is answered expired.
C9_ExpiredIsTerminal ==
    (Answered /\ L.afterExpired) => L.resp = Some(TokenExpired(L.route))

\* C9 as amended: once expired has been answered for a token, no later request
\* with that token for that identity is answered with success: it is answered
\* expired, or 'Email already verified' when a request whose checks ran before
\* the expiry has saved in the meantime; and no step issues a new token or a new
\* token_created_at for an existing identity.
C9_NoSuccessAfterExpired ==
    [][/\ (last' # Null /\ last'[1].afterExpired) =>
             last'[1].resp \in {Some(TokenExpired(last'[1].route)), Some(AlreadyVerified)}
       /\ \A i \in 1..Len(users) :
             /\ users'[i].verification_token \in {users[i].verification_token, Null}
             /\ users'[i].token_created_at \in {users[i].token_created_at, Null}]_vars

C9_Witness ==
    /\ Answered
    /\ L.afterExpired
    /\ L.resp = Some(AlreadyVerified)

\* C10: a request whose token is not UUID-shaped is rejected as a client error
\* before any lookup in the users table, whatever the email and the identity.
C10_MalformedTokenNoLookup ==
    (Answered /\ L.token \notin uuidShaped) =>
        (L.resp[1].status = 400 /\ ~L.lookedUp)

-----------------------------------------------------------------------------
(* Properties of the authentication middleware and of the user responses *)

\* The answered request went through the middleware authenticate
AuthAnswered == last # Null /\ L.op = "GET /v1/user/:userId"

\* The account whose email the answered request presented
Holder == findOne(L.cred.email)

\* The answered request presented the email and the password of an account
CorrectCredentials ==
    /\ L.cred.kind = "basic"
    /\ Holder # Null
    /\ bcryptCompare(L.cred.password, Holder[1].password)

\* The answered request was let through as the account it named
PassedAsHolder == L.next /\ L.user # Null /\ L.user[1].id = Holder[1].id

\* C12: for a verified identity whose password contains ':', the request
\* that presents base64(email:password) with that password authenticates as
\* that identity (here with the User.authenticate that returns the instance).
C12_ColonPasswordAuthenticates ==
    (AuthAnswered /\ L.version = 1 /\ CorrectCredentials
        /\ Holder[1].email_verified
        /\ \E i \in 1..Len(chars(L.cred.password)) : chars(L.cred.password)[i] = ":")
    => PassedAsHolder

\* C13: for the correct email and password of an identity whose
\* email_verified is false, authenticate answers 403 'Email not verified',
\* never 401, and does not call next().
C13_UnverifiedAnswered403 ==
    (AuthAnswered /\ CorrectCredentials /\ ~Holder[1].email_verified)
    => (L.auth = Some(EmailNotVerified) /\ ~L.next)

\* C14: for the correct email and password of an identity whose
\* email_verified is true, authenticate calls next() with req.user being that
\* identity and answers neither 401 nor 403.
C14_VerifiedPasses ==
    (AuthAnswered /\ CorrectCredentials /\ Holder[1].email_verified)
    => (PassedAsHolder /\ L.auth = Null)

\* C15: a credential that names no account and a credential that names an
\* account with a password that is not the account's get the same answer:
\* 401 'Invalid email or password' with the same body and headers.
C15_SameInvalidCredentials ==
    (AuthAnswered /\ L.cred.kind = "basic" /\ L.cred.password # Missing
        /\ (Holder = Null \/ ~bcryptCompare(L.cred.password, Holder[1].password)))
    => (L.auth = Some(InvalidEmailOrPassword) /\ ~L.next)

\* C16: the identity in the body of a successful POST /v1/user or
\* GET /v1/user/:userId response has no password hash, no verification_token
\* and no token_created_at.
C16_NoSecretsSerialized ==
    (last # Null /\ L.op \in {"POST /v1/user", "GET /v1/user/:userId"}
        /\ L.resp.status \in {200, 201})
    => DOMAIN L.resp.body \cap {"password", "verification_token", "token_created_at"} = {}

-----------------------------------------------------------------------------
(* Properties of the product and image routes *)

ProductMutations ==
    {"PUT /v1/product/:productId", "PATCH /v1/product/:productId",
     "DELETE /v1/product/:productId"}

ImageMutations ==
    {"POST /v1/product/:product_id/image",
     "DELETE /v1/product/:product_id/image/:image_id"}

\* The answered request came from an authenticated identity and was one of ops
AnsweredAs(ops) == last # Null /\ L.op \in ops /\ L.identity # Null

\* The answered request named a product that existed, and came from its owner
IsOwner == L.target[1].owner_user_id = L.identity[1].id

\* The answered request has the shape its route asks for: a UUID in the path,
\* no unknown or read-only field, every field on PUT, no body on DELETE, a
\* file on an upload
ShapeValid ==
    /\ uuidRegex(chars(L.productId))
    /\ L.op \in {"PUT /v1/product/:productId", "PATCH /v1/product/:productId"} =>
          /\ rejectUnknownFields(PRODUCT_FIELDS, L.body) = Null
          /\ validateProductUpdate(L.body) = Null
    /\ L.op = "PUT /v1/product/:productId" => PRODUCT_FIELDS \subseteq DOMAIN L.body
    /\ L.op = "DELETE /v1/product/:productId" => DOMAIN L.body = {}
    /\ L.op = "POST /v1/product/:product_id/image" => "image" \in DOMAIN L.body

\* C17 as stated: for an authenticated identity and an existing product, a
\* PUT, PATCH or DELETE is answered 403 exactly when the identity is not the
\* owner, whatever the request body.
C17_NonOwnerAlways403 ==
    (AnsweredAs(ProductMutations) /\ L.target # Null) =>
        (L.resp.status = 403 <=> ~IsOwner)

\* C17 as amended: for an authenticated identity and an existing product, a
\* PUT, PATCH or DELETE changes the product only for its owner: a non-owner is
\* answered 403, or 400 when the request fails the shape checks that run
\* before the lookup, and the product stays as it was; the owner is never
\* answered 403; and a request of valid shape is answered 403 exactly when the
\* identity is not the owner.
C17_OwnerOnlyMutation ==
    (AnsweredAs(ProductMutations) /\ L.target # Null) =>
        /\ ~IsOwner => /\ L.resp.status \in {400, 403}
                       /\ findProductByPk(L.productId) = L.target
        /\ IsOwner => L.resp.status # 403
        /\ ShapeValid => (L.resp.status = 403 <=> ~IsOwner)

\* The second account is refused the deletion of a product of the first
C17_Witness ==
    /\ AnsweredAs({"DELETE /v1/product/:productId"})
    /\ L.target # Null
    /\ L.target[1].owner_user_id = 1
    /\ L.identity[1].id = 2
    /\ ShapeValid
    /\ L.resp.status = 403
    /\ findProductByPk(L.productId) = L.target

\* C18: the owner_user_id of a product is the id of the identity whose POST
\* created it, and no later step changes it or brings a deleted product back:
\* a PUT or PATCH, also one that carries an owner_user_id, leaves it as it is.
C18_OwnerNeverChanges ==
    [][/\ Len(products') >= Len(products)
       /\ \A i \in 1..Len(products) :
             IF products[i] = Null THEN products'[i] = Null
             ELSE products'[i] # Null =>
                     /\ products'[i][1].owner_user_id = products[i][1].owner_user_id
                     /\ products'[i][1].id = products[i][1].id
       /\ Len(products') > Len(products) =>
             /\ last' # Null
             /\ last'[1].op = "POST /v1/product"
             /\ last'[1].identity # Null
             /\ products'[Len(products')][1].owner_user_id = last'[1].identity[1].id]_vars

\* The owner's PUT that names another owner is refused, and a product created
\* by the second account has been renamed by a PATCH and is still its own
C18_Witness ==
    /\ AnsweredAs({"PUT /v1/product/:productId"})
    /\ L.target # Null
    /\ IsOwner
    /\ "owner_user_id" \in DOMAIN L.body
    /\ L.body.owner_user_id # L.target[1].owner_user_id
    /\ L.resp.status = 400
    /\ findProductByPk(L.productId) = L.target
    /\ \E p \in liveProducts : p.owner_user_id = 2 /\ p.sku = "S1" /\ p.name = "n2"

\* C19: on the ownership-gated routes (product PUT, PATCH, DELETE, image
\* upload and delete) a request of valid shape by an authenticated identity
\* that names a well-formed id of no product is answered 404.
C19_MissingTargetIs404 ==
    (AnsweredAs(ProductMutations \cup ImageMutations) /\ ShapeValid /\ L.target = Null)
    => L.resp.status = 404

\* C20: a read of an existing product or of its images is never answered 403
\* because the authenticated reader is not the owner.
C20_ReadsNotOwnerGated ==
    (last # Null /\ L.target # Null
        /\ \/ L.op = "GET /v1/product/:productId"
           \/ L.op = "GET /v1/product/:product_id/image" /\ L.identity # Null)
    => L.resp.status # 403

-----------------------------------------------------------------------------
(* Properties of the liveness probe *)

\* A request to /healthz has just been answered
HealthAnswered == last # Null /\ L.op = "/healthz"

\* The Content-Length values that announce at least one byte
PositiveLengths == {LengthFifteen}

\* The answered request carried a query parameter, a body with content, or a
\* content-length above zero
CarriedPayload ==
    \/ DOMAIN L.query # {}
    \/ DOMAIN L.body # {}
    \/ L.contentLength # Null /\ L.contentLength[1] \in PositiveLengths

\* The same of the request answered in the next state
CarriedPayloadNext ==
    \/ DOMAIN last'[1].query # {}
    \/ DOMAIN last'[1].body # {}
    \/ last'[1].contentLength # Null /\ last'[1].contentLength[1] \in PositiveLengths

\* C21: a request to /healthz with a query parameter, a non-empty body or a
\* content-length above zero is answered 400 or 405, never 200, whatever its
\* method, and the step that answers it inserts no row into health_checks
C21_PayloadRejected ==
    [][(last = Null /\ last' # Null /\ last'[1].op = "/healthz" /\ CarriedPayloadNext)
          => /\ last'[1].resp.status \in {400, 405}
             /\ health_checks' = health_checks]_vars

\* A GET whose only payload is the content-length header has been rejected
\* while the store was accepting writes
C21_Witness ==
    /\ HealthAnswered
    /\ L.method = "GET"
    /\ DOMAIN L.query = {} /\ DOMAIN L.body = {}
    /\ L.contentLength = Some(LengthFifteen)
    /\ L.outcome = "ok"
    /\ L.resp.status = 400

\* C22: a request to /healthz with a method other than GET, HEAD included, is
\* answered 405 without a body, also when it carries a query parameter or a
\* body, for which a GET is answered 400
C22_MethodBeforeShape ==
    HealthAnswered =>
        /\ L.method # "GET" => L.resp.status = 405 /\ L.resp.body = Null
        /\ (L.method = "GET" /\ CarriedPayload) => L.resp.status = 400

\* A HEAD with a query parameter and a body has been answered 405
C22_Witness ==
    /\ HealthAnswered
    /\ L.method = "HEAD"
    /\ DOMAIN L.query # {} /\ DOMAIN L.body # {}
    /\ L.resp.status = 405

\* C23: a GET /healthz without payload is answered 200 exactly when the insert
\* succeeds and 503 when it fails in any way; both answers have no body and
\* the same three headers, so nothing about the failure reaches the client
C23_InsertDecidesAnswer ==
    (HealthAnswered /\ L.method = "GET" /\ ~CarriedPayload) =>
        /\ L.resp.status = IF L.outcome = "ok" THEN 200 ELSE 503
        /\ L.resp.body = Null
        /\ L.resp.headers = NoCacheHeaders

\* A timeout of the store has been answered 503
C23_Witness ==
    /\ HealthAnswered
    /\ L.method = "GET" /\ ~CarriedPayload
    /\ L.outcome = "ETIMEDOUT"
    /\ L.resp.status = 503

\* C24: a request to /healthz makes at most one storage write: exactly one
\* when it is a GET without payload, also when that write fails, and none
\* when it is answered 400 or 405
C24_AtMostOneWrite ==
    HealthAnswered =>
        /\ L.writes <= 1
        /\ (L.method = "GET" /\ ~CarriedPayload) => L.writes = 1
        /\ L.resp.status \in {400, 405} => L.writes = 0

\* A refused connection has been reported after a single write
C24_Witness ==
    /\ HealthAnswered
    /\ L.outcome = "ECONNREFUSED"
    /\ L.resp.status = 503
    /\ L.writes = 1

-----------------------------------------------------------------------------
(* Properties of user creation and of the user updates *)

\* A POST /v1/user has just been answered
PostAnswered == last # Null /\ L.op = "POST /v1/user"

\* The rows of the users table with an email
holders(email) == {i \in 1..Len(users) : users[i].email = email}

\* C25: no two rows of the users table have the same email, whatever the
\* interleaving of the creation requests; a 201 names the one row of its
\* email, and a request that finds the email taken, at its lookup or, having
\* passed the lookup at the same time as another, at its insert, is answered 400
C25_OneIdentityPerEmail ==
    /\ \A i, j \in 1..Len(users) : users[i].email = users[j].email => i = j
    /\ PostAnswered =>
          /\ L.resp.status = 201 => holders(L.resp.body.email) = {L.resp.body.id}
          /\ L.stage \in {"lookup", "create"} =>
                /\ L.resp.status = 400
                /\ holders(normalizeEmail(L.body.email)) # {}

\* Two requests for the same mailbox have passed the lookup together and the
\* second to insert has been answered 400
C25_Witness ==
    /\ PostAnswered
    /\ L.stage = "create"
    /\ L.resp.status = 400
    /\ Cardinality(holders(L.body.email)) = 1

\* The passwords a client may try
Candidates == {"secret1", "secret2", ColonPrefix, PasswordColon, PasswordSuffixed}

\* The candidates user.validatePassword accepts for a row
Accepted(user) == {p \in Candidates : bcryptCompare(p, user.password)}

UserUpdates == {"PUT /v1/user/:userId", "PATCH /v1/user/:userId"}

\* This step answers 204 to a PUT or PATCH of user i
UpdatedNext(i) ==
    /\ last = Null /\ last' # Null
    /\ last'[1].op \in UserUpdates
    /\ last'[1].resp.status = 204
    /\ last'[1].userId = i

UserOps == UserUpdates \cup {"GET /v1/user/:userId"}

\* The identity authenticate put in req.user for the answered request, or null
Caller == IF L.op = "GET /v1/user/:userId" THEN L.user ELSE L.identity

\* A request to a user route has been answered whose caller passed
\* authenticate and named the id of somebody else
OtherId ==
    /\ last # Null
    /\ L.op \in UserOps
    /\ Caller # Null
    /\ L.userId # Caller[1].id

\* The body of the answered PUT or PATCH has only updatable fields, and a
\* password of six characters or more if it has one
UpdateShapeValid ==
    /\ DOMAIN L.body \subseteq UPDATE_FIELDS
    /\ "password" \in DOMAIN L.body => Len(chars(L.body.password)) >= 6

C28_AuthenticateReadsOnly ==
    [][(last = Null /\ last' # Null /\ last'[1].op = "GET /v1/user/:userId")
          => users' = users]_vars

\* Correct credentials of an identity that is not verified have been answered
\* 403 and its token is still pending
C28_Witness ==
    /\ last # Null
    /\ L.op = "GET /v1/user/:userId"
    /\ L.auth = Some(EmailNotVerified)
    /\ \E i \in 1..Len(users) :
          /\ users[i].email = L.cred.email
          /\ ~users[i].email_verified
          /\ users[i].verification_token # Null

\* C29: email_verified, verification_token and token_created_at of an
\* identity change only in the step that answers 'Email verified
\* successfully' for that identity: the steps of a request that is answered
\* anything else leave the three columns of every identity as they were
C29_FailedVerifyChangesNothing ==
    [][\A i \in 1..Len(users) :
          VerificationFields(users')[i] # VerificationFields(users)[i] =>
              /\ last' # Null
              /\ last'[1].resp = Some(VerifiedOk)
              /\ last'[1].user[1].id = i]_vars

\* The stored token has been submitted too late, answered expired, and is
\* still stored
C29_Witness ==
    /\ Answered
    /\ L.resp = Some(TokenExpired(L.route))
    /\ L.read # Null
    /\ users[L.read[1].id].verification_token = Some(L.token)
    /\ users[L.read[1].id].token_created_at = L.read[1].token_created_at

\* C30: the step that follows a successful insert of POST /v1/user answers
\* 201 with the created identity, which is in the users table, not verified
\* and with its token, and leaves the table as it is, whether publishToSNS
\* published or threw; and a message is published only in such a step, for
\* the identity inserted before
C30_PublishFailureKeepsUser ==
    [][/\ \A r \in Reqs :
             (last = Null /\ req[r].pc = "created" /\ req'[r].pc # "created") =>
                 /\ last' # Null
                 /\ last'[1].resp.status = 201
                 /\ users' = users
                 /\ last'[1].resp.body.id \in 1..Len(users)
                 /\ toJSON(users[last'[1].resp.body.id]) = last'[1].resp.body
                 /\ ~last'[1].resp.body.email_verified
                 /\ last'[1].resp.body.verification_token # Null
       /\ sns' # sns =>
             \E r \in Reqs :
                 /\ req[r].pc = "created"
                 /\ req[r].user[1].id \in 1..Len(users)
                 /\ sns' = Append(sns, snsMessage(users[req[r].user[1].id]))]_vars

\* publishToSNS has thrown and the request has been answered 201
C30_Witness ==
    /\ PostAnswered
    /\ L.stage = "publish"
    /\ L.publish = "threw"
    /\ L.resp.status = 201
    /\ \E i \in 1..Len(users) : users[i].id = L.resp.body.id
    /\ \A k \in 1..Len(sns) : sns[k].userId # L.resp.body.id

====
